---------------------------- MODULE Spec2Model ----------------------------
(***************************************************************************)
(* Model of pages/01_linha_do_Tempo.py: the timeline page that loads a     *)
(* public spreadsheet as CSV, normalises its columns, derives year_key and *)
(* themes_list, filters and sorts the table, exports it as CSV and renders *)
(* it on two alternating sides.                                            *)
(*                                                                         *)
(* Text is a sequence of one-character strings.  A cell of a DataFrame is  *)
(* a record [t, s, n]: t is the Python type of the value ("str", "int",    *)
(* "float", "nan"), s its characters when it is a str, n its number when   *)
(* it is an int or a float (the floats of the model are whole numbers).    *)
(***************************************************************************)
EXTENDS Integers, Sequences, FiniteSets, TLC

VARIABLES
    pc,          \* a function called alone: "call" before it ran, "return" after
    arg,         \* a function called alone: its argument
    ret,         \* a function called alone: what it returned
    source,      \* the remote sheet: [up |-> BOOLEAN, csv |-> CSV text]
    clock,       \* wall-clock time, in ticks
    cache,       \* st.cache_data's entry for load_data_from_sheet: <<>> or <<[value, at]>>
    fetch,       \* what the last script run's load did: "none", "hit", "ok", "failed"
    age,         \* age of the cache entry when the last script run called the loader (-1: no entry)
    status,      \* the last script run: "idle", "ok", "raised"
    df,          \* the table load_data_from_sheet returned to the last script run
    selected,    \* the multiselect's value in the last script run
    query,       \* the text input's value in the last script run
    filtered,    \* filter_df's result in the last script run
    csv_bytes,   \* the CSV text offered for download
    sides        \* the column each rendered row was put in, in render order

unit_vars == <<pc, arg, ret>>
app_vars  == <<source, clock, cache, fetch, age, status, df, selected, query,
               filtered, csv_bytes, sides>>
vars      == <<pc, arg, ret, source, clock, cache, fetch, age, status, df,
               selected, query, filtered, csv_bytes, sides>>

-----------------------------------------------------------------------------
(* Characters *)

\* Characters in code-point order: Python compares str by code point.
CharOrder ==
    << "\t", "\n", " ", "&", "'", "(", ",", "-", ".", "/",
       "0", "1", "2", "3", "4", "5", "6", "7", "8", "9", ";",
       "A", "B", "C", "D", "E", "F", "G", "I", "M", "P", "R", "S", "T", "U",
       "a", "b", "c", "d", "e", "f", "g", "h", "i", "l", "m", "n", "o", "p",
       "q", "r", "s", "t", "u", "v", "x", "z",
       "Á", "á", "ã", "ç", "ê", "í", "ô" >>

Chars == { CharOrder[i] : i \in 1..Len(CharOrder) }

Ord == [ c \in Chars |-> CHOOSE i \in 1..Len(CharOrder) : CharOrder[i] = c ]

DigitChars == << "0", "1", "2", "3", "4", "5", "6", "7", "8", "9" >>

\* \d of the re module, on the characters of the model.
IsDigit(c) == \E d \in 1..10 : DigitChars[d] = c

DigitVal(c) == (CHOOSE d \in 1..10 : DigitChars[d] = c) - 1

\* \s of the re module and the characters str.strip() removes.
IsSpace(c) == c \in {" ", "\t", "\n"}

UpperToLower ==
    [ c \in {"A", "B", "C", "D", "E", "F", "G", "I", "M", "P", "R", "S", "T", "U", "Á"} |->
        CASE c = "A" -> "a" [] c = "B" -> "b" [] c = "C" -> "c" [] c = "D" -> "d"
          [] c = "E" -> "e" [] c = "F" -> "f" [] c = "G" -> "g" [] c = "I" -> "i"
          [] c = "M" -> "m" [] c = "P" -> "p" [] c = "R" -> "r" [] c = "S" -> "s"
          [] c = "T" -> "t" [] c = "U" -> "u" [] c = "Á" -> "á" ]

LowerChar(c) == IF c \in DOMAIN UpperToLower THEN UpperToLower[c] ELSE c

\* str.lower()
Lower(s) == [ i \in 1..Len(s) |-> LowerChar(s[i]) ]

SetMin(S) == CHOOSE x \in S : \A y \in S : x <= y
SetMax(S) == CHOOSE x \in S : \A y \in S : x >= y

\* str.strip()
Strip(s) ==
    LET keep == { i \in 1..Len(s) : ~IsSpace(s[i]) }
    IN  IF keep = {} THEN <<>> ELSE SubSeq(s, SetMin(keep), SetMax(keep))

\* `sub in s` on str: sub occurs in s as a contiguous substring.
Contains(s, sub) ==
    \E i \in 0..(Len(s) - Len(sub)) : \A k \in 1..Len(sub) : s[i + k] = sub[k]

\* s < t on str: lexicographic by code point.
RECURSIVE StrLess(_, _)
StrLess(s, t) ==
    IF t = <<>> THEN FALSE
    ELSE IF s = <<>> THEN TRUE
    ELSE IF s[1] = t[1] THEN StrLess(Tail(s), Tail(t))
    ELSE Ord[s[1]] < Ord[t[1]]

\* int(digits)
RECURSIVE ParseInt(_)
ParseInt(s) ==
    IF s = <<>> THEN 0
    ELSE ParseInt(SubSeq(s, 1, Len(s) - 1)) * 10 + DigitVal(s[Len(s)])

\* str(n) for n >= 0
RECURSIVE IntToStr(_)
IntToStr(n) ==
    IF n < 10 THEN << DigitChars[n + 1] >>
    ELSE Append(IntToStr(n \div 10), DigitChars[(n % 10) + 1])

-----------------------------------------------------------------------------
(* Python values held in a cell *)

PyStr(s)   == [t |-> "str",   s |-> s,    n |-> 0]
PyInt(n)   == [t |-> "int",   s |-> <<>>, n |-> n]
PyFloat(n) == [t |-> "float", s |-> <<>>, n |-> n]
PyNaN      == [t |-> "nan",   s |-> <<>>, n |-> 0]

\* isinstance(v, str)
IsStr(v) == v.t = "str"

-----------------------------------------------------------------------------
(* UTIL: first_year_from_text, split_themes *)

\* The sentinel 10**9 that pushes undated rows to the end.
NoYear == 1000000000

\* The {4} of r"(\d{4})".
YearDigits == 4

\* re.search(r"(\d{4})", s): the start of the leftmost match, 0 when none.
YearSearch(s) ==
    LET starts == { i \in 1..(Len(s) - YearDigits + 1) :
                      \A k \in 0..(YearDigits - 1) : IsDigit(s[i + k]) }
    IN  IF starts = {} THEN 0 ELSE SetMin(starts)

first_year_from_text(text) ==
    IF ~IsStr(text) THEN NoYear
    ELSE LET m == YearSearch(text.s)
         IN  IF m # 0 THEN ParseInt(SubSeq(text.s, m, m + YearDigits - 1))
             ELSE NoYear

\* The class [,;/&] of the split pattern.
SepChars == {",", ";", "/", "&"}

\* First index >= i of s that is not whitespace (Len(s) + 1 when none): where a
\* greedy \s+ started at i stops.
RECURSIVE SkipSpace(_, _)
SkipSpace(s, i) ==
    IF i <= Len(s) /\ IsSpace(s[i]) THEN SkipSpace(s, i + 1) ELSE i

\* SepMatchAt without re.IGNORECASE.
SepMatchAt_CaseSensitive(s, i) ==
    IF i > Len(s) THEN 0
    ELSE IF IsSpace(s[i]) THEN
        LET j == SkipSpace(s, i)
        IN  IF j + 1 <= Len(s) /\ s[j] = "e" /\ IsSpace(s[j + 1])
            THEN SkipSpace(s, j + 1)
            ELSE 0
    ELSE IF s[i] \in SepChars THEN i + 1
    ELSE 0

\* A match of r"\s+e\s+|[,;/&]" (re.IGNORECASE) starting exactly at i: the index
\* after its last character, 0 when the pattern does not match at i.  \s+ is
\* greedy: it takes the whole run of whitespace; giving characters back cannot
\* help, for the character after a shorter run is whitespace, not e.
SepMatchAt(s, i) ==
    IF i > Len(s) THEN 0
    ELSE IF IsSpace(s[i]) THEN
        LET j == SkipSpace(s, i)
        IN  IF j + 1 <= Len(s) /\ LowerChar(s[j]) = "e" /\ IsSpace(s[j + 1])
            THEN SkipSpace(s, j + 1)
            ELSE 0
    ELSE IF s[i] \in SepChars THEN i + 1
    ELSE 0

\* re.split(pattern, s): the pieces between the leftmost non-overlapping
\* matches, scanning from position i with the current piece starting at from.
RECURSIVE ReSplitFrom(_, _, _)
ReSplitFrom(s, from, i) ==
    IF i > Len(s) THEN << SubSeq(s, from, Len(s)) >>
    ELSE LET e == SepMatchAt(s, i)
         IN  IF e = 0 THEN ReSplitFrom(s, from, i + 1)
             ELSE << SubSeq(s, from, i - 1) >> \o ReSplitFrom(s, e, e)

re_split(s) == ReSplitFrom(s, 1, 1)

\* [p.strip() for p in parts if p.strip()]
RECURSIVE StripNonEmpty(_)
StripNonEmpty(parts) ==
    IF parts = <<>> THEN <<>>
    ELSE LET p == Strip(parts[1])
         IN  (IF p # <<>> THEN <<p>> ELSE <<>>) \o StripNonEmpty(Tail(parts))

split_themes(theme_str) ==
    IF ~IsStr(theme_str) THEN <<>>
    ELSE StripNonEmpty(re_split(theme_str.s))

-----------------------------------------------------------------------------
(* DataFrames and CSV text *)

\* A DataFrame is [columns, index, data]: the column names, the row labels
\* and, for each column, its values in row order.  A CSV text is
\* [header, rows]: the fields of its header line and of each record, quoting
\* undone (to_csv quotes a field that holds a delimiter and read_csv unquotes
\* it, so a field's characters survive the file as they are).

c_period      == << "p", "e", "r", "i", "o", "d" >>
c_title       == << "t", "i", "t", "l", "e" >>
c_description == << "d", "e", "s", "c", "r", "i", "p", "t", "i", "o", "n" >>
c_theme       == << "t", "h", "e", "m", "e" >>
c_year_key    == << "y", "e", "a", "r", "_", "k", "e", "y" >>
c_themes_list == << "t", "h", "e", "m", "e", "s", "_", "l", "i", "s", "t" >>

REQUIRED_COLS == << c_period, c_title, c_description, c_theme >>

\* pd.DataFrame()
EmptyFrame == [columns |-> <<>>, index |-> <<>>, data |-> <<>>]

\* Position of column name in df.columns (0 when absent).
ColPos(frame, name) ==
    IF \E k \in 1..Len(frame.columns) : frame.columns[k] = name
    THEN CHOOSE k \in 1..Len(frame.columns) : frame.columns[k] = name
    ELSE 0

\* df[name]: the values of a column, in row order.
Col(frame, name) == frame.data[ColPos(frame, name)]

NRows(frame) == Len(frame.index)

\* out[name] = series, where the series carries the row labels idx.  A frame
\* that has no rows yet takes the labels of the first non-empty series
\* assigned to it, and the columns it already has are filled with NaN
\* (DataFrame._ensure_valid_index); afterwards rows are matched by label.
SetItemSeries(out, name, values, idx) ==
    IF Len(out.index) = 0 /\ Len(values) > 0
    THEN [columns |-> Append(out.columns, name),
          index   |-> idx,
          data    |-> Append([k \in 1..Len(out.data) |-> [i \in 1..Len(idx) |-> PyNaN]],
                             values)]
    ELSE [columns |-> Append(out.columns, name),
          index   |-> out.index,
          data    |-> Append(out.data,
                             [i \in 1..Len(out.index) |->
                                 IF \E j \in 1..Len(idx) : idx[j] = out.index[i]
                                 THEN values[CHOOSE j \in 1..Len(idx) : idx[j] = out.index[i]]
                                 ELSE PyNaN])]

\* out[name] = scalar: the scalar in every row the frame has (none, if it has
\* no rows yet).
SetItemScalar(out, name, v) ==
    [columns |-> Append(out.columns, name),
     index   |-> out.index,
     data    |-> Append(out.data, [i \in 1..Len(out.index) |-> v])]

\* df.iloc[pos]: the rows at the positions pos, in that order, labels kept.
ILoc(frame, pos) ==
    [columns |-> frame.columns,
     index   |-> [k \in 1..Len(pos) |-> frame.index[pos[k]]],
     data    |-> [c \in 1..Len(frame.data) |-> [k \in 1..Len(pos) |-> frame.data[c][pos[k]]]]]

\* The positions 1..n that satisfy keep, in ascending order (a boolean mask).
RECURSIVE MaskPositions(_, _, _)
MaskPositions(keep, i, n) ==
    IF i > n THEN <<>>
    ELSE (IF keep[i] THEN <<i>> ELSE <<>>) \o MaskPositions(keep, i + 1, n)

\* df[mask]
BoolIndex(frame, keep) == ILoc(frame, MaskPositions(keep, 1, NRows(frame)))

\* A field read_csv lets pass as an integer: digits only.
IsIntText(s) == s # <<>> /\ \A i \in 1..Len(s) : IsDigit(s[i])

\* A field read_csv lets pass as a float with a whole value: digits "." zeros.
IsWholeFloatText(s) ==
    \E d \in 2..(Len(s) - 1) :
        /\ s[d] = "."
        /\ \A i \in 1..(d - 1) : IsDigit(s[i])
        /\ \A i \in (d + 1)..Len(s) : s[i] = "0"

FloatTextInt(s) == ParseInt(SubSeq(s, 1, (CHOOSE d \in 1..Len(s) : s[d] = ".") - 1))

\* read_csv's default na_values, those the characters of the model can spell.
NaValues == { <<>>, <<"n", "a", "n">>, <<"n", "/", "a">>, <<"n", "u", "l", "l">> }

\* read_csv's type inference for one column of fields: a column whose fields
\* are all integers is int64; a column of numbers with a missing field or a
\* float is float64; any other column is object, its fields kept as str and
\* its missing fields NaN.
InferColumn(texts) ==
    LET n      == Len(texts)
        isNa   == [i \in 1..n |-> texts[i] \in NaValues]
        allInt == \A i \in 1..n : IsIntText(texts[i])
        allNum == \A i \in 1..n :
                      isNa[i] \/ IsIntText(texts[i]) \/ IsWholeFloatText(texts[i])
    IN  IF n = 0 THEN <<>>
        ELSE IF allInt THEN [i \in 1..n |-> PyInt(ParseInt(texts[i]))]
        ELSE IF allNum THEN
            [i \in 1..n |->
                IF isNa[i] THEN PyNaN
                ELSE IF IsIntText(texts[i]) THEN PyFloat(ParseInt(texts[i]))
                ELSE PyFloat(FloatTextInt(texts[i]))]
        ELSE [i \in 1..n |-> IF isNa[i] THEN PyNaN ELSE PyStr(texts[i])]

\* pd.read_csv raises: the source cannot be reached (URLError, timeout) or
\* the body has no header line (EmptyDataError).
ReadCsvRaises(src) == ~src.up \/ src.csv.header = <<>>

\* pd.read_csv(text): header line to column names, rows labelled 0..n-1.
read_csv(csv) ==
    [columns |-> csv.header,
     index   |-> [i \in 1..Len(csv.rows) |-> i - 1],
     data    |-> [k \in 1..Len(csv.header) |->
                     InferColumn([i \in 1..Len(csv.rows) |-> csv.rows[i][k]])]]

\* str(v) of a cell, as astype(str) and an f-string give it.
AsText(v) ==
    CASE v.t = "str"   -> v.s
      [] v.t = "int"   -> IntToStr(v.n)
      [] v.t = "float" -> IntToStr(v.n) \o << ".", "0" >>
      [] v.t = "nan"   -> << "n", "a", "n" >>

\* A field to_csv writes for a cell: na_rep is the empty field.
CsvField(v) == IF v.t = "nan" THEN <<>> ELSE AsText(v)

\* df[REQUIRED_COLS].to_csv(index=False)
to_csv(frame) ==
    [header |-> REQUIRED_COLS,
     rows   |-> [i \in 1..NRows(frame) |->
                    [k \in 1..Len(REQUIRED_COLS) |-> CsvField(Col(frame, REQUIRED_COLS[k])[i])]]]

-----------------------------------------------------------------------------
(* normalize_columns *)

\* colmap = {c.lower().strip(): c for c in df.columns}: a later column
\* replaces an earlier one under the same key.
ColMapHas(frame, key) == \E k \in 1..Len(frame.columns) : Strip(Lower(frame.columns[k])) = key

ColMapGet(frame, key) ==
    frame.columns[SetMax({ k \in 1..Len(frame.columns) : Strip(Lower(frame.columns[k])) = key })]

\* The first column, in column order, whose lower-cased name contains want
\* (0 when none).
FallbackPos(frame, want) ==
    LET hits == { k \in 1..Len(frame.columns) : Contains(Lower(frame.columns[k]), want) }
    IN  IF hits = {} THEN 0 ELSE SetMin(hits)

\* One turn of the loop over REQUIRED_COLS.
NormalizeStep(frame, out, want) ==
    IF ColMapHas(frame, want)
    THEN SetItemSeries(out, want, Col(frame, ColMapGet(frame, want)), frame.index)
    ELSE LET fallback == FallbackPos(frame, want)
         IN  IF fallback # 0
             THEN SetItemSeries(out, want, frame.data[fallback], frame.index)
             ELSE SetItemScalar(out, want, PyStr(<<>>))

RECURSIVE NormalizeFrom(_, _, _)
NormalizeFrom(frame, out, k) ==
    IF k > Len(REQUIRED_COLS) THEN out
    ELSE NormalizeFrom(frame, NormalizeStep(frame, out, REQUIRED_COLS[k]), k + 1)

normalize_columns(frame) == NormalizeFrom(frame, EmptyFrame, 1)

-----------------------------------------------------------------------------
(* load_data_from_sheet *)

FB == <<
    <<
        << "A", " ", "p", "a", "r", "t", "i", "r", " ", "d", "e", " ", "1", "7", "6", "0" >>,
        << "P", "r", "i", "m", "e", "i", "r", "a", " ", "R", "e", "v", "o", "l", "u", "ç",
           "ã", "o", " ", "I", "n", "d", "u", "s", "t", "r", "i", "a", "l" >>,
        << "T", "r", "a", "n", "s", "i", "ç", "ã", "o", " ", "d", "a", " ", "m", "a", "n",
           "u", "f", "a", "t", "u", "r", "a", " ", "p", "a", "r", "a", " ", "a", " ", "m",
           "a", "q", "u", "i", "n", "o", "f", "a", "t", "u", "r", "a", ",", " ", "u", "s",
           "o", " ", "d", "o", " ", "c", "a", "r", "v", "ã", "o", " ", "e", " ", "m", "á",
           "q", "u", "i", "n", "a", " ", "a", " ", "v", "a", "p", "o", "r", "." >>,
        << "G", "e", "o", "g", "r", "a", "f", "i", "a", " ", "E", "c", "o", "n", "ô", "m",
           "i", "c", "a" >>
    >>,
    <<
        << "1", "8", "8", "4", "-", "1", "8", "8", "5" >>,
        << "C", "o", "n", "f", "e", "r", "ê", "n", "c", "i", "a", " ", "d", "e", " ", "B",
           "e", "r", "l", "i", "m" >>,
        << "F", "o", "r", "m", "a", "l", "i", "z", "a", "ç", "ã", "o", " ", "d", "a", " ",
           "'", "P", "a", "r", "t", "i", "l", "h", "a", " ", "d", "a", " ", "Á", "f", "r",
           "i", "c", "a", "'", " ", "p", "e", "l", "a", "s", " ", "p", "o", "t", "ê", "n",
           "c", "i", "a", "s", " ", "e", "u", "r", "o", "p", "e", "i", "a", "s", "." >>,
        << "G", "e", "o", "p", "o", "l", "í", "t", "i", "c", "a" >>
    >>,
    <<
        << "1", "9", "3", "9", "-", "1", "9", "4", "5" >>,
        << "S", "e", "g", "u", "n", "d", "a", " ", "G", "u", "e", "r", "r", "a", " ", "M",
           "u", "n", "d", "i", "a", "l" >>,
        << "C", "o", "n", "s", "o", "l", "i", "d", "o", "u", " ", "E", "U", "A", " ", "e",
           " ", "U", "R", "S", "S", " ", "c", "o", "m", "o", " ", "s", "u", "p", "e", "r",
           "p", "o", "t", "ê", "n", "c", "i", "a", "s", ";", " ", "i", "n", "í", "c", "i",
           "o", " ", "d", "a", " ", "o", "r", "d", "e", "m", " ", "b", "i", "p", "o", "l",
           "a", "r", "." >>,
        << "G", "e", "o", "p", "o", "l", "í", "t", "i", "c", "a" >>
    >>
>>

\* pd.DataFrame(data) of the fallback list of dicts.
FallbackFrame ==
    [columns |-> REQUIRED_COLS,
     index   |-> [i \in 1..Len(FB) |-> i - 1],
     data    |-> [k \in 1..Len(REQUIRED_COLS) |-> [i \in 1..Len(FB) |-> PyStr(FB[i][k])]]]

\* df[name] = df[from].apply(f): a column of f's results, by row.
WithYearKey(d) ==
    [columns |-> Append(d.columns, c_year_key),
     index   |-> d.index,
     data    |-> Append(d.data,
                        [i \in 1..NRows(d) |-> first_year_from_text(Col(d, c_period)[i])])]

WithThemesList(d) ==
    [columns |-> Append(d.columns, c_themes_list),
     index   |-> d.index,
     data    |-> Append(d.data,
                        [i \in 1..NRows(d) |-> split_themes(Col(d, c_theme)[i])])]

\* TryFetch without its except branch: whatever was read is used.
TryFetch_NoFallback(src) == normalize_columns(read_csv(src.csv))

\* The try/except: the frame read and normalised, or the fallback when
\* reading raised.
TryFetch(src) ==
    IF ReadCsvRaises(src) THEN FallbackFrame
    ELSE normalize_columns(read_csv(src.csv))

\* The body of load_data_from_sheet, run on a cache miss.
load_data_from_sheet(src) == WithThemesList(WithYearKey(TryFetch(src)))

\* @st.cache_data(show_spinner=False): no ttl is passed, so ttl is None
\* (<<>> here; <<n>> would be n ticks) and an entry never expires.
cache_data_ttl == <<>>

Expired(entry, now) ==
    cache_data_ttl # <<>> /\ now - entry.at >= cache_data_ttl[1]

CacheHit(c, now) == c # <<>> /\ ~Expired(c[1], now)

-----------------------------------------------------------------------------
(* filter_df *)

\* The year_key and themes_list of the row at position i.
YearKeyAt(frame, i)    == Col(frame, c_year_key)[i]
ThemesListAt(frame, i) == Col(frame, c_themes_list)[i]

\* t in lst
InList(x, lst) == \E k \in 1..Len(lst) : lst[k] = x

\* AnySelected with all() in place of any().
AllSelected(lst, sel) == \A x \in sel : InList(x, lst)

\* lambda lst: any(t in lst for t in selected_themes)
AnySelected(lst, sel) == \E x \in sel : InList(x, lst)

\* if selected_themes: df = df[df["themes_list"].apply(...)]
ThemeFilter(frame, sel) ==
    IF sel = {} THEN frame
    ELSE BoolIndex(frame, [i \in 1..NRows(frame) |-> AnySelected(ThemesListAt(frame, i), sel)])

\* re.compile(p) raises re.error.  Of the characters of the model only "(" and
\* "." are special in a pattern; the model has no ")", so a "(" opens a group
\* that is never closed ("missing ), unterminated subpattern").
re_error(p) == \E i \in 1..Len(p) : p[i] = "("

\* re.search(p, s) finds a match, for a pattern that compiles: "." stands for
\* any character but a newline, every other character for itself.
re_search(p, s) ==
    \E i \in 0..(Len(s) - Len(p)) :
        \A k \in 1..Len(p) :
            IF p[k] = "." THEN s[i + k] # "\n" ELSE s[i + k] = p[k]

\* Series.astype(str).str.lower().str.contains(q): regex=True is the default,
\* so q is used as a regular expression.
str_contains(v, q) == re_search(q, Lower(AsText(v)))

TextColumns == { c_title, c_description, c_period, c_theme }

\* if query: q = query.strip().lower(); df = df[mask]
TextFilter(frame, qry) ==
    IF qry = <<>> THEN frame
    ELSE LET q == Lower(Strip(qry))
         IN  BoolIndex(frame, [i \in 1..NRows(frame) |->
                 \E c \in TextColumns : str_contains(Col(frame, c)[i], q)])

\* The title at position i is missing (NaN sorts last: na_position="last").
TitleNa(frame, i) == Col(frame, c_title)[i].t = "nan"

\* Order of two titles that are present: str by code point, numbers by value
\* (a column holds values of one kind).
TitleLess(a, b) == IF IsStr(a) THEN StrLess(a.s, b.s) ELSE a.n < b.n

\* Row i goes before row j under sort_values(["year_key", "title"],
\* ascending=[True, True]): a sort on several keys is a stable lexsort, so rows
\* equal on both keys keep their order.
SortsBefore(frame, i, j) ==
    LET yi == YearKeyAt(frame, i)
        yj == YearKeyAt(frame, j)
        ti == Col(frame, c_title)[i]
        tj == Col(frame, c_title)[j]
    IN  \/ yi < yj
        \/ /\ yi = yj
           /\ \/ ~TitleNa(frame, i) /\ TitleNa(frame, j)
              \/ ~TitleNa(frame, i) /\ ~TitleNa(frame, j) /\ TitleLess(ti, tj)
              \/ /\ TitleNa(frame, i) = TitleNa(frame, j)
                 /\ TitleNa(frame, i) \/ (~TitleLess(ti, tj) /\ ~TitleLess(tj, ti))
                 /\ i < j

sort_values(frame) ==
    LET n == NRows(frame)
        rank == [i \in 1..n |-> Cardinality({ j \in 1..n : SortsBefore(frame, j, i) })]
    IN  ILoc(frame, [r \in 1..n |-> CHOOSE i \in 1..n : rank[i] = r - 1])

\* filter_df raises: the query is not a regular expression that compiles.
FilterRaises(qry) == qry # <<>> /\ re_error(Lower(Strip(qry)))

filter_df(frame, selected_themes, qry) ==
    sort_values(TextFilter(ThemeFilter(frame, selected_themes), qry))

-----------------------------------------------------------------------------
(* UI: the script, run top to bottom on every interaction *)

\* all_themes = sorted({t for lst in df["themes_list"] for t in lst}), as a set.
all_themes(frame) ==
    UNION { { ThemesListAt(frame, i)[k] : k \in 1..Len(ThemesListAt(frame, i)) } :
            i \in 1..NRows(frame) }

\* for i, row in filtered.iterrows(): i is the row's label; i % 2 == 0 puts
\* the card in c1 (left), otherwise in c3 (right).
RenderSides(frame) ==
    [k \in 1..NRows(frame) |-> IF frame.index[k] % 2 = 0 THEN "left" ELSE "right"]

EmptyCsv == [header |-> <<>>, rows |-> <<>>]

\* What load_data_from_sheet() returns now: the cached value, or the body run.
LoadedNow ==
    IF CacheHit(cache, clock) THEN cache[1].value ELSE load_data_from_sheet(source)

\* One run of the script with the widgets holding sel and qry.
Script(sel, qry) ==
    LET hit    == CacheHit(cache, clock)
        loaded == LoadedNow
    IN  /\ cache' = IF hit THEN cache ELSE << [value |-> loaded, at |-> clock] >>
        /\ fetch' = IF hit THEN "hit"
                    ELSE IF ReadCsvRaises(source) THEN "failed" ELSE "ok"
        /\ age' = IF cache = <<>> THEN -1 ELSE clock - cache[1].at
        /\ df' = loaded
        /\ selected' = sel
        /\ query' = qry
        /\ IF FilterRaises(qry)
           THEN /\ status' = "raised"
                /\ filtered' = EmptyFrame
                /\ csv_bytes' = EmptyCsv
                /\ sides' = <<>>
           ELSE LET f == filter_df(loaded, sel, qry)
                IN  /\ status' = "ok"
                    /\ filtered' = f
                    /\ csv_bytes' = to_csv(f)
                    /\ sides' = RenderSides(f)
        /\ UNCHANGED << source, clock, pc, arg, ret >>

-----------------------------------------------------------------------------
(* Bounds and inputs *)

MaxRows     == 3   \* rows of a sheet
MaxClock    == 3   \* ticks of the clock
MaxYearText == 5   \* characters of a text given to first_year_from_text
MaxThemeText == 5  \* characters of a text given to split_themes
MaxHeaders  == 3   \* columns of a table given to normalize_columns
MaxNormRows == 2   \* rows of a table given to normalize_columns

\* All texts of at most n characters of alphabet.
TextsUpTo(alphabet, n) == UNION { [1..k -> alphabet] : k \in 0..n }

\* Records of a sheet: period, title, description, theme.
RowPool == <<
    << <<"1", "9", "4", "5">>, <<"1", "0">>, <<"x">>, <<"A", " ", "e", " ", "B">> >>,
    << <<"1", "9", "4", "5">>, <<"9">>, <<"x", ".">>, <<"C">> >>,
    << <<"1", "9", "3", "9", "-", "1", "9", "4", "5">>, <<"a">>, <<"x">>, <<"B", ",", "C">> >>,
    << <<>>, <<>>, <<>>, <<>> >>,
    << <<"1", "9", "3", "9">>, <<"b">>, <<"x">>, <<"C">> >>
>>

SheetHeader == << <<"P", "e", "r", "i", "o", "d">>, <<"T", "i", "t", "l", "e">>, <<"D", "e", "s", "c", "r", "i", "p", "t", "i", "o", "n">>, <<"T", "h", "e", "m", "e">> >>

SheetRows == UNION { [1..n -> { RowPool[k] : k \in 1..Len(RowPool) }] : n \in 0..MaxRows }

Sheet(rows) == [header |-> SheetHeader, rows |-> rows]

Queries == {
    <<>>,
    <<" ">>,
    <<" ", "A">>,
    <<"n", "d">>,
    <<"1", "0">>,
    <<".">>,
    <<"(">>,
    <<" ", "G", "U", "E", "R", "R", "A", " ">>
}

YearExamples == {
    <<"1", "9", "3", "9", "-", "1", "9", "4", "5">>,
    <<"A", " ", "p", "a", "r", "t", "i", "r", " ", "d", "e", " ", "1", "7", "6", "0">>,
    <<"s", "e", "m", " ", "d", "a", "t", "a">>
}

YearInputs ==
    { PyStr(s) : s \in TextsUpTo({"1", "2", "a"}, MaxYearText) \cup YearExamples }
        \cup { PyNaN, PyInt(1945), PyFloat(1945) }

ThemeExamples == {
    <<"G", "e", "o", "p", "o", "l", "í", "t", "i", "c", "a", " ", "e", " ", "E", "c", "o", "n", "o", "m", "i", "a">>,
    <<"A", ",", " ", "B", ";", " ", "C", "/", "D", " ", "&", " ", "E">>,
    <<"A", " ", "E", " ", "B", ",", " ", "C">>
}

ThemeInputs ==
    { PyStr(s) : s \in TextsUpTo({"a", "e", "E", " ", ","}, MaxThemeText) \cup ThemeExamples }
        \cup { PyNaN, PyInt(7), PyFloat(7) }

HeaderPool == {
    <<"P", "e", "r", "i", "o", "d">>,
    <<" ", "t", "i", "t", "l", "e", " ">>,
    <<"E", "v", "e", "n", "t", " ", "T", "i", "t", "l", "e">>,
    <<"t", "h", "e", "m", "e", "s">>,
    <<"d", "e", "s", "c", "r", "i", "p", "t", "i", "o", "n">>,
    <<"x">>
}

\* Header lines without a repeated name (read_csv renames a repeated one).
HeaderLines ==
    { h \in UNION { [1..n -> HeaderPool] : n \in 1..MaxHeaders } :
        \A i, j \in 1..Len(h) : i # j => h[i] # h[j] }

\* A table as read_csv gives it: each cell a str that tells its row and column.
RawFrame(h, n) ==
    [columns |-> h,
     index   |-> [i \in 1..n |-> i - 1],
     data    |-> [k \in 1..Len(h) |-> [i \in 1..n |-> PyStr(Append(h[k], DigitChars[i]))]]]

NormInputs == { RawFrame(h, n) : h \in HeaderLines, n \in 0..MaxNormRows }

-----------------------------------------------------------------------------
(* Specifications *)

UnitIdle == pc = "idle" /\ arg = <<>> /\ ret = <<>>

AppIdle ==
    /\ source = [up |-> FALSE, csv |-> EmptyCsv]
    /\ clock = 0
    /\ cache = <<>>
    /\ fetch = "none"
    /\ age = -1
    /\ status = "idle"
    /\ df = EmptyFrame
    /\ selected = {}
    /\ query = <<>>
    /\ filtered = EmptyFrame
    /\ csv_bytes = EmptyCsv
    /\ sides = <<>>

\* A session on one sheet: the user changes the widgets, the script runs again.
Init ==
    /\ UnitIdle
    /\ source \in { [up |-> FALSE, csv |-> Sheet(<<>>)] }
                    \cup { [up |-> TRUE, csv |-> Sheet(r)] : r \in SheetRows }
    /\ clock = 0
    /\ cache = <<>>
    /\ fetch = "none"
    /\ age = -1
    /\ status = "idle"
    /\ df = EmptyFrame
    /\ selected = {}
    /\ query = <<>>
    /\ filtered = EmptyFrame
    /\ csv_bytes = EmptyCsv
    /\ sides = <<>>

\* The page is opened (or reloaded): the widgets hold their defaults.
PageOpened == Script({}, <<>>)

\* The user types a query into the text input: the script runs again.
QueryTyped ==
    /\ status # "idle"
    /\ \E qry \in Queries : qry # query /\ Script(selected, qry)

\* The user adds a theme to the multiselect, or removes one: the script runs
\* again.  The options are the themes of the loaded table.
ThemeToggled ==
    /\ status # "idle"
    /\ \E x \in all_themes(df) :
          Script(IF x \in selected THEN selected \ {x} ELSE selected \cup {x}, query)

Next == PageOpened \/ QueryTyped \/ ThemeToggled

Spec == Init /\ [][Next]_vars

\* The page over time: the sheet is edited and goes down and up, the clock
\* advances, and the page is opened with its widgets at their defaults.
CacheSheets ==
    { Sheet(<< RowPool[k] >>) : k \in 1..Len(RowPool) } \cup { EmptyCsv }

InitCache ==
    /\ UnitIdle
    /\ source \in { [up |-> u, csv |-> c] : u \in BOOLEAN, c \in CacheSheets }
    /\ clock = 0
    /\ cache = <<>>
    /\ fetch = "none"
    /\ age = -1
    /\ status = "idle"
    /\ df = EmptyFrame
    /\ selected = {}
    /\ query = <<>>
    /\ filtered = EmptyFrame
    /\ csv_bytes = EmptyCsv
    /\ sides = <<>>

Tick ==
    /\ clock < MaxClock
    /\ clock' = clock + 1
    /\ UNCHANGED << source, cache, fetch, age, status, df, selected, query,
                    filtered, csv_bytes, sides, pc, arg, ret >>

SourceDown ==
    /\ source.up
    /\ source' = [source EXCEPT !.up = FALSE]
    /\ UNCHANGED << clock, cache, fetch, age, status, df, selected, query,
                    filtered, csv_bytes, sides, pc, arg, ret >>

SourceUp ==
    /\ ~source.up
    /\ source' = [source EXCEPT !.up = TRUE]
    /\ UNCHANGED << clock, cache, fetch, age, status, df, selected, query,
                    filtered, csv_bytes, sides, pc, arg, ret >>

SheetEdited ==
    /\ \E c \in CacheSheets : c # source.csv /\ source' = [source EXCEPT !.csv = c]
    /\ UNCHANGED << clock, cache, fetch, age, status, df, selected, query,
                    filtered, csv_bytes, sides, pc, arg, ret >>

NextCache == Tick \/ SourceDown \/ SourceUp \/ SheetEdited \/ PageOpened

SpecCache == InitCache /\ [][NextCache]_vars

\* first_year_from_text called on one input.
InitYear == AppIdle /\ pc = "call" /\ arg \in YearInputs /\ ret = 0

CallFirstYear ==
    /\ pc = "call"
    /\ ret' = first_year_from_text(arg)
    /\ pc' = "return"
    /\ UNCHANGED << arg, source, clock, cache, fetch, age, status, df, selected,
                    query, filtered, csv_bytes, sides >>

SpecYear == InitYear /\ [][CallFirstYear]_vars

\* split_themes called on one input.
InitThemes == AppIdle /\ pc = "call" /\ arg \in ThemeInputs /\ ret = <<>>

CallSplitThemes ==
    /\ pc = "call"
    /\ ret' = split_themes(arg)
    /\ pc' = "return"
    /\ UNCHANGED << arg, source, clock, cache, fetch, age, status, df, selected,
                    query, filtered, csv_bytes, sides >>

SpecThemes == InitThemes /\ [][CallSplitThemes]_vars

\* normalize_columns called on one table.
InitNorm == AppIdle /\ pc = "call" /\ arg \in NormInputs /\ ret = EmptyFrame

CallNormalize ==
    /\ pc = "call"
    /\ ret' = normalize_columns(arg)
    /\ pc' = "return"
    /\ UNCHANGED << arg, source, clock, cache, fetch, age, status, df, selected,
                    query, filtered, csv_bytes, sides >>

SpecNorm == InitNorm /\ [][CallNormalize]_vars

-----------------------------------------------------------------------------
(* Properties *)

\* The rows of a frame as the set of their labels.
Labels(frame) == { frame.index[k] : k \in 1..NRows(frame) }

\* Position in frame of the row labelled lab.
PosOf(frame, lab) == CHOOSE k \in 1..NRows(frame) : frame.index[k] = lab

\* The script has run and filter_df returned.
RunOk == status = "ok"

(* C1.  The loader's result is cached for a bounded time-to-live window: a
   call made within the window after a fetch returns the cached table without
   fetching, and a call made once the window has expired fetches the source
   again, so that a cached fallback is replaced.  Stated for the last call of
   the loader that found an entry in the cache, of age `age`: there is a window
   of at most MaxClock ticks such that the call was a cache hit if the entry
   was younger than the window and a fetch if it was not. *)
C1_TTLWindow ==
    (status # "idle" /\ age >= 0) =>
        \E window \in 1..MaxClock :
            /\ age < window => fetch = "hit"
            /\ age >= window => fetch \in {"ok", "failed"}

(* C2.  Whenever reading the remote CSV fails, load_data_from_sheet raises
   nothing and returns exactly the three embedded fallback rows, with year_key
   1760, 1884, 1939 and a non-empty themes_list derived from each theme. *)
C2_FallbackOnFailure ==
    fetch = "failed" =>
        /\ status = "ok"
        /\ df.index = << 0, 1, 2 >>
        /\ df.columns = REQUIRED_COLS \o << c_year_key, c_themes_list >>
        /\ \A k \in 1..4 : \A i \in 1..3 : df.data[k][i] = PyStr(FB[i][k])
        /\ Col(df, c_year_key) = << 1760, 1884, 1939 >>
        /\ \A i \in 1..3 : ThemesListAt(df, i) = << FB[i][4] >>

\* A run whose fetch failed and that returned the three rows.
C2_Witness == fetch = "failed" /\ status = "ok" /\ NRows(df) = 3

\* The header h matches the logical column want: exactly (ignoring case and
\* surrounding blanks) or by containing it.
HeaderMatches(h, want) == Strip(Lower(h)) = want \/ Contains(Lower(h), want)

(* C3.  normalize_columns returns exactly the four columns period, title,
   description, theme in that order, with the same rows as its input, and every
   logical column without an exact or substring header match holds the empty
   string in every row. *)
C3_FourColumnsEmptyString ==
    pc = "return" =>
        /\ ret.columns = << c_period, c_title, c_description, c_theme >>
        /\ ret.index = arg.index
        /\ \A k \in 1..4 :
              /\ Len(ret.data[k]) = NRows(arg)
              /\ (\A j \in 1..Len(arg.columns) : ~HeaderMatches(arg.columns[j], ret.columns[k]))
                    => \A i \in 1..NRows(arg) : ret.data[k][i] = PyStr(<<>>)

\* The row at position i of frame holds text as a literal substring of one of
\* its four text fields, ignoring case.
RowHasText(frame, i, text) ==
    \E c \in { c_title, c_description, c_period, c_theme } :
        Contains(Lower(AsText(Col(frame, c)[i])), text)

\* The rows of df the theme filter lets pass.
ThemeMatches(i) ==
    selected = {} \/ \E x \in selected : InList(x, ThemesListAt(df, i))

(* C4.  For a query that is non-empty after trimming, filter_df keeps exactly
   the rows in which the lower-cased text of title, description, period or
   theme contains the trimmed, lower-cased query as a literal substring,
   whatever characters the query holds, and the call does not fail. *)
C4_LiteralSubstring ==
    (status # "idle" /\ Strip(query) # <<>>) =>
        /\ status = "ok"
        /\ Labels(filtered) =
              { df.index[i] : i \in { j \in 1..NRows(df) :
                    ThemeMatches(j) /\ RowHasText(df, j, Lower(Strip(query))) } }

\* The exported CSV read back through the CSV reader, normalize_columns,
\* first_year_from_text and split_themes.
ReadBack == WithThemesList(WithYearKey(normalize_columns(read_csv(csv_bytes))))

(* C5.  Round trip: the exported CSV, read back through the CSV reader,
   normalize_columns, first_year_from_text and split_themes, gives for every
   row the year_key and the themes_list the row had before the export. *)
C5_RoundTrip ==
    RunOk =>
        /\ NRows(ReadBack) = NRows(filtered)
        /\ \A i \in 1..NRows(filtered) :
              /\ YearKeyAt(ReadBack, i) = YearKeyAt(filtered, i)
              /\ ThemesListAt(ReadBack, i) = ThemesListAt(filtered, i)

\* The starts of the runs of exactly 4 consecutive digits of s: 4 digits, no
\* digit before them and none after.
ExactRuns(s) ==
    { i \in 1..(Len(s) - 3) :
        /\ \A k \in 0..3 : IsDigit(s[i + k])
        /\ i = 1 \/ ~IsDigit(s[i - 1])
        /\ i + 4 > Len(s) \/ ~IsDigit(s[i + 4]) }

(* C6.  first_year_from_text returns the integer value of the first run of
   exactly 4 consecutive digits of the text (a longer run of digits is no such
   run), and 10^9 when there is none or the input is not a string. *)
C6_ExactlyFourDigits ==
    pc = "return" =>
        ret = IF IsStr(arg) /\ ExactRuns(arg.s) # {}
              THEN LET i == SetMin(ExactRuns(arg.s))
                   IN  ParseInt(SubSeq(arg.s, i, i + 3))
              ELSE 1000000000

Blank(c) == c \in {" ", "\t", "\n"}

\* A separator occurrence starts at position i of s: one of , ; / & or
\* whitespace, e or E, whitespace.
CutStartsAt(s, i) ==
    \/ s[i] \in {",", ";", "/", "&"}
    \/ /\ Blank(s[i])
       /\ \E j \in (i + 1)..(Len(s) - 1) :
             /\ \A k \in i..(j - 1) : Blank(s[k])
             /\ s[j] \in {"e", "E"}
             /\ Blank(s[j + 1])

\* The last position of the occurrence that starts at i: the character itself,
\* or the end of the whitespace that follows the e.
CutEnd(s, i) ==
    IF ~Blank(s[i]) THEN i
    ELSE LET j == SetMin({ m \in (i + 1)..Len(s) : ~Blank(s[m]) })
         IN  SetMax({ m \in (j + 1)..Len(s) : \A k \in (j + 1)..m : Blank(s[k]) })

RECURSIVE LTrim(_)
LTrim(s) == IF s # <<>> /\ Blank(Head(s)) THEN LTrim(Tail(s)) ELSE s

RECURSIVE RTrim(_)
RTrim(s) ==
    IF s # <<>> /\ Blank(s[Len(s)]) THEN RTrim(SubSeq(s, 1, Len(s) - 1)) ELSE s

\* The text cut at its separator occurrences, taken from left to right (an
\* occurrence begins after the one before it has ended), each fragment trimmed
\* and the empty ones dropped.
RECURSIVE Fragments(_)
Fragments(s) ==
    LET starts == { i \in 1..Len(s) : CutStartsAt(s, i) }
        first  == SetMin(starts)
        head   == RTrim(LTrim(IF starts = {} THEN s ELSE SubSeq(s, 1, first - 1)))
        rest   == IF starts = {} THEN <<>>
                  ELSE Fragments(SubSeq(s, CutEnd(s, first) + 1, Len(s)))
    IN  (IF head = <<>> THEN <<>> ELSE << head >>) \o rest

(* C7.  split_themes returns the fragments obtained by cutting the text at
   every whitespace + e or E + whitespace and at every , ; / &, each fragment
   trimmed, the empty ones dropped, in left-to-right order; so the result holds
   no empty or whitespace-only string, and a non-string gives the empty
   sequence. *)
C7_SplitThemes ==
    pc = "return" =>
        /\ ret = IF IsStr(arg) THEN Fragments(arg.s) ELSE <<>>
        /\ \A k \in 1..Len(ret) : \E i \in 1..Len(ret[k]) : ~Blank(ret[k][i])

\* A text with a conjunction and a comma was split in three themes.
C7_Witness ==
    /\ pc = "return"
    /\ IsStr(arg)
    /\ Len(ret) = 3
    /\ \E i \in 2..(Len(arg.s) - 1) :
          arg.s[i] \in {"e", "E"} /\ Blank(arg.s[i - 1]) /\ Blank(arg.s[i + 1])
    /\ \E i \in 1..Len(arg.s) : arg.s[i] = ","

(* C8.  The theme filter is any-match: with a non-empty selection the rows kept
   are those whose themes_list shares an element with the selection; with an
   empty selection the theme filter removes nothing, so that with an empty
   selection and an empty query the output has the rows and the row count of
   the input. *)
C8_AnyMatch ==
    RunOk =>
        /\ \A lab \in Labels(filtered) :
              /\ lab \in Labels(df)
              /\ ThemeMatches(PosOf(df, lab))
              /\ \A k \in 1..Len(df.data) :
                    filtered.data[k][PosOf(filtered, lab)] = df.data[k][PosOf(df, lab)]
        /\ Cardinality(Labels(filtered)) = NRows(filtered)
        /\ Strip(query) = <<>> =>
              Labels(filtered) = { df.index[i] : i \in { j \in 1..NRows(df) : ThemeMatches(j) } }
        /\ (Strip(query) = <<>> /\ selected = {}) => NRows(filtered) = NRows(df)

\* A row with the themes A and B was kept for the selection {B, C}.
C8_Witness ==
    /\ RunOk
    /\ selected = { <<"B">>, <<"C">> }
    /\ \E k \in 1..NRows(filtered) : ThemesListAt(filtered, k) = << <<"A">>, <<"B">> >>
    /\ NRows(filtered) < NRows(df)

\* The title of the row at position k, as text.
TitleText(frame, k) == AsText(Col(frame, c_title)[k])

(* C9.  The output of filter_df is ordered ascending by (year_key, title): of
   two consecutive rows the first has a smaller year_key, or an equal year_key
   and a title lexicographically less than or equal; rows equal on both keys
   keep their input order; rows with the sentinel year_key come after the rows
   with a parsed year. *)
C9_SortedStable ==
    RunOk =>
        \A k \in 1..(NRows(filtered) - 1) :
            LET y1 == YearKeyAt(filtered, k)
                y2 == YearKeyAt(filtered, k + 1)
                t1 == TitleText(filtered, k)
                t2 == TitleText(filtered, k + 1)
            IN  /\ y1 < y2 \/ (y1 = y2 /\ ~StrLess(t2, t1))
                /\ (y1 = y2 /\ t1 = t2) => filtered.index[k] < filtered.index[k + 1]
                /\ ~(y1 = 1000000000 /\ y2 < 1000000000)

(* C10.  The rendered timeline alternates sides: two rows rendered one after
   the other are placed in opposite columns. *)
C10_Alternates ==
    RunOk => \A k \in 1..(Len(sides) - 1) : sides[k] # sides[k + 1]

=============================================================================
